---------------------------- MODULE Spec2Model ----------------------------
(***************************************************************************)
(* A model of the MCP protocol client of simple-mcp-proxy                  *)
(* (src/src/mcpClient.js): the MCPClient class with its request-id         *)
(* counter, its session id, the headers it builds for every outgoing       *)
(* request, the JSON / SSE dispatch of sendRequest and initialize, and     *)
(* the SSE aggregation loop of handleSSEResponse; and of the route         *)
(* handlers of the HTTP router that build a client for each inbound        *)
(* request and map its outcome to an HTTP status.                          *)
(*                                                                         *)
(* Text is modelled as a sequence of characters; a character is a pair     *)
(* <<kind, arg>> of strings.  <<"c", x>> is the plain character x; the     *)
(* members of a JSON object are single tokens: <<"J", ver>> is the member  *)
(* "jsonrpc": ver, <<"R", v>> the member "result": v and <<"E", m>> the    *)
(* member "error": m.  Header names are the keys of the JavaScript object  *)
(* the program builds, compared by their exact spelling.                   *)
(***************************************************************************)
EXTENDS Naturals, Sequences, FiniteSets

VARIABLES
    headers,     \* this.headers: the configured static headers
    sessionId,   \* this.sessionId
    requestId,   \* this.requestId
    calls,       \* the calls made on the instance, in call-start order
    initHeader,  \* the mcp-session-id header of the last initialize response
    router       \* the inbound request a route handler is serving, if any

vars == <<headers, sessionId, requestId, calls, initHeader, router>>

---------------------------------------------------------------------------
(* Bounds of the model *)

\* calls made on one client instance
MaxCalls == 3
\* events in one SSE stream of the aggregation specification
MaxEvents == 2
\* events in one SSE body of the client specification
MaxBodyEvents == 1

---------------------------------------------------------------------------
(* JavaScript values *)

None == "none"

\* JSON values a result member can hold: two falsy ones, two truthy ones
Values == {"null", "0", "objA", "objB"}

\* ToBoolean: what `if (result)` and `if (parsed.error)` test
Truthy(v) == v \in {"objA", "objB", "boom", "nomsg", "missing", "locked", "toolfail"}

Ch(x) == <<"c", x>>
LF == Ch("LF")
CR == Ch("CR")
SP == Ch(" ")
DataPrefix == <<Ch("d"), Ch("a"), Ch("t"), Ch("a"), Ch(":"), SP>>

\* Error messages are sequences of fragments; includes() looks for a fragment
NoError == [site |-> None, msg |-> <<>>]

\* String.prototype.includes on an error message
Includes(msg, part) == \E i \in 1..Len(msg) : msg[i] = part
MkError(site, msg) == [site |-> site, msg |-> msg]

\* error.message of the error objects a server sends; <<>> when the object
\* has no message
MessageOf(e) ==
    CASE e = "boom"     -> <<"boom">>
      [] e = "missing"  -> <<"Resource", "not found">>
      [] e = "locked"   -> <<"Item", "401", "is locked">>
      [] e = "toolfail" -> <<"Tool", "execution failed">>
      [] OTHER          -> <<>>

---------------------------------------------------------------------------
(* Text operations used by handleSSEResponse *)

\* String.prototype.startsWith
StartsWith(s, p) == Len(s) >= Len(p) /\ SubSeq(s, 1, Len(p)) = p

IsSpace(ch) == ch \in {SP, CR, LF}

\* String.prototype.trim
RECURSIVE TrimLeft(_)
TrimLeft(s) ==
    IF s # <<>> /\ IsSpace(Head(s)) THEN TrimLeft(Tail(s)) ELSE s

RECURSIVE TrimRight(_)
TrimRight(s) ==
    IF s # <<>> /\ IsSpace(s[Len(s)])
    THEN TrimRight(SubSeq(s, 1, Len(s) - 1))
    ELSE s

Trim(s) == TrimRight(TrimLeft(s))

\* String.prototype.split('\n'): the pieces between line feeds, the last
\* piece (possibly empty) being the text after the last line feed
RECURSIVE SplitLF(_, _)
SplitLF(s, cur) ==
    IF s = <<>> THEN <<cur>>
    ELSE IF Head(s) = LF THEN <<cur>> \o SplitLF(Tail(s), <<>>)
    ELSE SplitLF(Tail(s), Append(cur, Head(s)))

Split(s) == SplitLF(s, <<>>)

\* JSON.parse followed by the member reads of lines 125-131.  ok is FALSE
\* when JSON.parse throws or a member read throws (both are caught at
\* line 134); a scalar document parses and has no members.
IsMember(ch) == ch[1] \in {"J", "R", "E"}

MemberOf(inner, kind, default) ==
    IF \E i \in 1..Len(inner) : inner[i][1] = kind
    THEN LET last == CHOOSE i \in 1..Len(inner) :
                        /\ inner[i][1] = kind
                        /\ \A j \in (i+1)..Len(inner) : inner[j][1] # kind
         IN  inner[last][2]
    ELSE default

NotParsed == [ok |-> FALSE, jsonrpc |-> None, hasResult |-> FALSE,
              result |-> None, error |-> None]

JSONParse(text) ==
    IF text = <<Ch("5")>>
    THEN [NotParsed EXCEPT !.ok = TRUE]
    ELSE IF /\ Len(text) >= 2
            /\ text[1] = Ch("{")
            /\ text[Len(text)] = Ch("}")
            /\ \A i \in 2..(Len(text) - 1) : IsMember(text[i])
    THEN LET inner == SubSeq(text, 2, Len(text) - 1)
         IN  [ok        |-> TRUE,
              jsonrpc   |-> MemberOf(inner, "J", None),
              hasResult |-> \E i \in 1..Len(inner) : inner[i][1] = "R",
              result    |-> MemberOf(inner, "R", None),
              error     |-> MemberOf(inner, "E", None)]
    ELSE NotParsed

\* parsed.error.message || 'SSE error'
SSEErrorMessage(e) == IF MessageOf(e) # <<>> THEN MessageOf(e) ELSE <<"SSE error">>

\* One line of the for loop, lines 118-138: the effect it has on the
\* aggregation: "reject" (line 127), "retain" (line 131) or "skip".
LineEffect(line) ==
    IF ~StartsWith(line, DataPrefix)
    THEN [do |-> "skip", v |-> None]
    ELSE LET data == Trim(SubSeq(line, 7, Len(line)))
             parsed == JSONParse(data)
         IN  IF data = <<>> \/ ~parsed.ok \/ parsed.jsonrpc # "2.0"
             THEN [do |-> "skip", v |-> None]
             ELSE IF parsed.error # None /\ Truthy(parsed.error)
             THEN [do |-> "reject", v |-> parsed.error]
             ELSE IF parsed.hasResult
             THEN [do |-> "retain", v |-> parsed.result]
             ELSE [do |-> "skip", v |-> None]

RECURSIVE ForLines_NoReturn(_, _)
ForLines_NoReturn(lines, result) ==
    IF lines = <<>> THEN [rejected |-> FALSE, result |-> result, e |-> None]
    ELSE LET eff == LineEffect(Head(lines))
             rest == ForLines_NoReturn(Tail(lines),
                         IF eff.do = "retain" THEN eff.v ELSE result)
         IN  IF eff.do = "reject"
             THEN [rejected |-> TRUE, result |-> rest.result, e |-> eff.v]
             ELSE rest

\* The for loop over the complete lines of one chunk: the retained result
\* after it, or the rejection that ended it at the first error event.
RECURSIVE ForLines(_, _)
ForLines(lines, result) ==
    IF lines = <<>> THEN [rejected |-> FALSE, result |-> result, e |-> None]
    ELSE LET eff == LineEffect(Head(lines))
         IN  IF eff.do = "reject"
             THEN [rejected |-> TRUE, result |-> result, e |-> eff.v]
             ELSE ForLines(Tail(lines),
                           IF eff.do = "retain" THEN eff.v ELSE result)


\* One turn of processChunk, lines 100-145, on an aggregation a: either
\* read() reports done and the promise settles on `result` (lines 104-111),
\* or the chunk is appended to the buffer, the complete lines are scanned
\* and the text after the last line feed is carried over.
OnDone_AlwaysResolve(a) ==
    [a EXCEPT !.settled = "resolved", !.value = a.result]

OnDone_FlushBuffer(a) ==
    LET eff == LineEffect(a.buffer)
        last == IF eff.do = "retain" THEN eff.v ELSE a.result
    IN  IF eff.do = "reject"
        THEN [a EXCEPT !.settled = "rejected",
                       !.err = MkError("sse_error", SSEErrorMessage(eff.v))]
        ELSE IF Truthy(last)
        THEN [a EXCEPT !.result = last, !.settled = "resolved", !.value = last]
        ELSE [a EXCEPT !.settled = "rejected",
                       !.err = MkError("sse_nodata",
                                       <<"No data received from SSE stream">>)]

OnDone(a) ==
    IF Truthy(a.result)
    THEN [a EXCEPT !.settled = "resolved", !.value = a.result]
    ELSE [a EXCEPT !.settled = "rejected",
                   !.err = MkError("sse_nodata",
                                   <<"No data received from SSE stream">>)]

OnChunk_FirstResultWins(a, chunk) ==
    LET pieces == Split(a.buffer \o chunk)
        lines  == SubSeq(pieces, 1, Len(pieces) - 1)
        scan   == ForLines(lines, a.result)
    IN  IF scan.rejected
        THEN [a EXCEPT !.buffer = pieces[Len(pieces)],
                       !.result = scan.result,
                       !.settled = "rejected",
                       !.err = MkError("sse_error", SSEErrorMessage(scan.e))]
        ELSE IF Truthy(scan.result)
        THEN [a EXCEPT !.buffer = pieces[Len(pieces)],
                       !.result = scan.result,
                       !.settled = "resolved",
                       !.value = scan.result]
        ELSE [a EXCEPT !.buffer = pieces[Len(pieces)],
                       !.result = scan.result]

OnChunk(a, chunk) ==
    LET pieces == Split(a.buffer \o chunk)
        lines  == SubSeq(pieces, 1, Len(pieces) - 1)
        scan   == ForLines(lines, a.result)
    IN  IF scan.rejected
        THEN [a EXCEPT !.buffer = pieces[Len(pieces)],
                       !.result = scan.result,
                       !.settled = "rejected",
                       !.err = MkError("sse_error", SSEErrorMessage(scan.e))]
        ELSE [a EXCEPT !.buffer = pieces[Len(pieces)],
                       !.result = scan.result]

\* new Promise(...) of line 94 with buffer = '' and result = null
NewAggregation(events, tailed, text) ==
    [events |-> events, tailed |-> tailed, rest |-> text, buffer |-> <<>>,
     result |-> "null", settled |-> "pending", value |-> None,
     err |-> NoError]

NoAggregation ==
    [events |-> <<>>, tailed |-> FALSE, rest |-> <<>>, buffer |-> <<>>,
     result |-> "null", settled |-> "idle", value |-> None, err |-> NoError]

---------------------------------------------------------------------------
(* What an upstream server can put on an SSE stream *)

Ev(k, v) == [k |-> k, v |-> v]

Obj(members) == <<Ch("{")>> \o members \o <<Ch("}")>>
Rpc == <<"J", "2.0">>

\* The text of one event, without its line feed
EventText(e) ==
    CASE e.k = "result"  -> DataPrefix \o Obj(<<Rpc, <<"R", e.v>>>>)
      [] e.k = "error"   -> DataPrefix \o Obj(<<Rpc, <<"E", e.v>>>>)
      [] e.k = "both"    -> DataPrefix \o Obj(<<Rpc, <<"R", e.v>>, <<"E", "boom">>>>)
      [] e.k = "crlf"    -> DataPrefix \o Obj(<<Rpc, <<"R", e.v>>>>) \o <<CR>>
      [] e.k = "notif"   -> DataPrefix \o Obj(<<Rpc>>)
      [] e.k = "plain"   -> DataPrefix \o Obj(<<<<"R", e.v>>>>)
      [] e.k = "garbage" -> DataPrefix \o <<Ch("x")>>
      [] e.k = "comment" -> <<Ch(":"), Ch("x")>>
      [] e.k = "blank"   -> <<>>

RECURSIVE Render(_)
Render(events) ==
    IF events = <<>> THEN <<>>
    ELSE EventText(Head(events)) \o <<LF>> \o Render(Tail(events))

\* The bytes of a stream: its events, the last one without its line feed
\* when the server closes the stream in the middle of a line
StreamText(events, tailed) ==
    LET text == Render(events)
    IN  IF tailed /\ text # <<>> THEN SubSeq(text, 1, Len(text) - 1) ELSE text

EventKinds ==
    {Ev("result", v) : v \in Values}
    \cup {Ev("error", "boom"), Ev("error", "nomsg"), Ev("both", "objA"),
          Ev("crlf", "objB"), Ev("notif", None), Ev("plain", "objA"),
          Ev("garbage", None), Ev("comment", None), Ev("blank", None)}

BodyEventKinds ==
    {Ev("result", "objA"), Ev("result", "null"), Ev("error", "boom"),
     Ev("comment", None)}

SeqsUpTo(S, n) == UNION {[1..k -> S] : k \in 0..n}

---------------------------------------------------------------------------
(* Header objects: sequences of <<name, value>> with distinct names *)

HasKey(o, k) == \E i \in 1..Len(o) : o[i][1] = k

\* o[k], undefined (None) when the object has no such key
Get(o, k) ==
    IF HasKey(o, k) THEN o[CHOOSE i \in 1..Len(o) : o[i][1] = k][2] ELSE None

\* o[k] = v
Put(o, k, v) ==
    IF HasKey(o, k)
    THEN [i \in 1..Len(o) |-> IF o[i][1] = k THEN <<k, v>> ELSE o[i]]
    ELSE Append(o, <<k, v>>)

\* { ...a, ...b }
RECURSIVE Spread(_, _)
Spread(a, b) ==
    IF b = <<>> THEN a ELSE Spread(Put(a, Head(b)[1], Head(b)[2]), Tail(b))

\* serverConfig.headers of the configured servers
Configs ==
    {<<>>,
     <<<<"Content-Type", "text/plain">>>>,
     <<<<"Mcp-Session-Id", "CFG">>>>,
     <<<<"Authorization", "tok">>, <<"Content-Type", "text/plain">>,
       <<"Mcp-Session-Id", "CFG">>>>}

\* A string is truthy unless it is null or empty
HasValue(s) == s \notin {None, ""}

RequestHeaders_FixedTypeLast(hdrs, sid) ==
    LET base == Spread(hdrs, <<<<"Content-Type", "application/json">>>>)
    IN  IF HasValue(sid) THEN Put(base, "Mcp-Session-Id", sid) ELSE base

\* Lines 40-48: the headers of a tools/list or tools/call request
RequestHeaders(hdrs, sid) ==
    LET base == Spread(<<<<"Content-Type", "application/json">>>>, hdrs)
    IN  IF HasValue(sid) THEN Put(base, "Mcp-Session-Id", sid) ELSE base

\* Lines 170-173: the headers of the initialize request
InitializeHeaders(hdrs, sid) ==
    Spread(<<<<"Content-Type", "application/json">>>>, hdrs)

\* Lines 240-243: the headers of a notification
NotificationHeaders(hdrs, sid) ==
    Spread(<<<<"Content-Type", "application/json">>>>, hdrs)

---------------------------------------------------------------------------
(* Responses of the upstream server *)

Statuses == {200, 401, 500}

\* response.ok
IsOk(status) == status \in 200..299

StatusCode(status) ==
    CASE status = 200 -> "200"
      [] status = 401 -> "401"
      [] status = 500 -> "500"
      [] OTHER        -> "other"

\* `HTTP ${response.status}: ${response.statusText}`
StatusText(status) ==
    CASE status = 200 -> <<"HTTP", StatusCode(status), "OK">>
      [] status = 401 -> <<"HTTP", StatusCode(status), "Unauthorized">>
      [] status = 500 -> <<"HTTP", StatusCode(status), "Internal Server Error">>
      [] OTHER        -> <<"HTTP", StatusCode(status)>>

\* contentType && contentType.includes('text/event-stream')
IsEventStream(ct) ==
    ct \in {"text/event-stream", "text/event-stream; charset=utf-8"}

\* values of the mcp-session-id response header; None when it is absent
SessionHeaders == {None, "", "S1", "S2"}

\* bodies of a response that is not an event stream
JsonBodies ==
    {Obj(<<Rpc, <<"R", "objA">>>>), Obj(<<Rpc, <<"R", "null">>>>),
     Obj(<<Rpc, <<"E", "boom">>>>), Obj(<<Rpc, <<"E", "nomsg">>>>),
     <<Ch("x")>>}

JsonResponses ==
    [status : Statuses, ctype : {None, "application/json"},
     session : SessionHeaders, body : JsonBodies,
     events : {<<>>}, tailed : {FALSE}]

\* event streams of either status, with and without a session id
SSEResponses ==
    [status : {200, 500}, ctype : {"text/event-stream"},
     session : {None, "S1"}, body : {<<>>},
     events : SeqsUpTo(BodyEventKinds, MaxBodyEvents), tailed : {FALSE}]

NoResponse ==
    [status |-> 0, ctype |-> None, session |-> None]

---------------------------------------------------------------------------
(* Calls *)

Slots == 1..MaxCalls

Requests == {"tools/list", "tools/call"}

\* end is how the notification's fetch ended: None while it has not
NoNotification == [sent |-> FALSE, hdrs |-> <<>>, held |-> None, end |-> None]

NoOutcome == [value |-> None, sessionId |-> None, err |-> NoError]

NewCall ==
    [pc |-> "new", op |-> None, id |-> 0, hdrs |-> <<>>, held |-> None,
     fetches |-> 0, seen |-> None, resp |-> NoResponse, sse |-> NoAggregation, notif |-> NoNotification,
     out |-> NoOutcome]

Settled(call) == call.pc \in {"resolved", "rejected", "done"}

\* The caller keeps nothing of a settled call but the id it used
Forget(call) ==
    IF call.pc \in {"resolved", "rejected"}
    THEN [NewCall EXCEPT !.pc = "done", !.id = call.id]
    ELSE call

\* A call starts when the calls before it have settled: the router awaits
\* each call before it makes the next
MayStart(c) ==
    /\ calls[c].pc = "new"
    /\ \A d \in 1..(c - 1) : Settled(calls[d])

GetNextRequestId_PostIncrement(n) == n

\* Line 18: ++this.requestId
GetNextRequestId(n) == n + 1

\* Line 85: the catch of sendRequest rethrows with a prefix; initialize
\* has no catch
Thrown(op, err) ==
    IF op \in Requests
    THEN MkError(err.site, <<"MCP request failed:">> \o err.msg)
    ELSE err

Reject(call, err) ==
    [call EXCEPT !.pc = "rejected", !.out.err = Thrown(call.op, err)]

Continue_Unnotified(call, value, hdrs, sid) ==
    [call EXCEPT !.pc = "resolved", !.out.value = value,
                 !.out.sessionId = IF call.op \in Requests THEN None ELSE sid]

\* What follows the body of the response: sendRequest returns the result
\* (lines 62, 83); initialize sends the notification (line 216)
Continue(call, value, hdrs, sid) ==
    IF call.op \in Requests
    THEN [call EXCEPT !.pc = "resolved", !.out.value = value]
    ELSE [call EXCEPT !.pc = "notify", !.out.value = value,
                      !.fetches = @ + 1,
                      !.notif = [sent |-> TRUE,
                                 hdrs |-> NotificationHeaders(hdrs, sid),
                                 held |-> sid, end |-> None]]

\* Lines 66-83 and 197-212: a response that is not an event stream
JsonErrorMessage(e) ==
    IF MessageOf(e) # <<>> THEN MessageOf(e) ELSE <<"Unknown MCP error">>

OnJsonResponse_StatusIgnored(call, resp, hdrs, sid) ==
    LET parsed == JSONParse(resp.body)
    IN  IF ~parsed.ok
        THEN Reject(call, MkError("json_parse", <<"Unexpected token">>))
        ELSE IF parsed.error # None /\ Truthy(parsed.error)
        THEN Reject(call, MkError("jsonrpc_error", JsonErrorMessage(parsed.error)))
        ELSE Continue(call, parsed.result, hdrs, sid)

OnJsonResponse(call, resp, hdrs, sid) ==
    LET parsed == JSONParse(resp.body)
    IN  IF ~IsOk(resp.status)
        THEN Reject(call, MkError("http_status", StatusText(resp.status)))
        ELSE IF ~parsed.ok
        THEN Reject(call, MkError("json_parse", <<"Unexpected token">>))
        ELSE IF parsed.error # None /\ Truthy(parsed.error)
        THEN Reject(call, MkError("jsonrpc_error", JsonErrorMessage(parsed.error)))
        ELSE Continue(call, parsed.result, hdrs, sid)

\* Lines 62 and 195: what follows a turn of the aggregation
OnAggregation(call, a, hdrs, sid) ==
    LET next == [call EXCEPT !.sse = a]
    IN  CASE a.settled = "resolved" -> Continue(next, a.value, hdrs, sid)
          [] a.settled = "rejected" -> Reject(next, a.err)
          [] OTHER                  -> next

OnResponse_StatusFirst(call, resp, hdrs, sid) ==
    LET got == [call EXCEPT !.resp = [status |-> resp.status,
                                      ctype |-> resp.ctype,
                                      session |-> resp.session]]
    IN  IF ~IsOk(resp.status)
        THEN Reject(got, MkError("http_status", StatusText(resp.status)))
        ELSE IF IsEventStream(resp.ctype)
        THEN [got EXCEPT !.pc = "sse",
                         !.sse = NewAggregation(resp.events, resp.tailed,
                                     StreamText(resp.events, resp.tailed))]
        ELSE OnJsonResponse(got, resp, hdrs, sid)

\* Lines 57-63 and 190-195: the dispatch on the content type
OnResponse(call, resp, hdrs, sid) ==
    LET got == [call EXCEPT !.resp = [status |-> resp.status,
                                      ctype |-> resp.ctype,
                                      session |-> resp.session]]
    IN  IF IsEventStream(resp.ctype)
        THEN [got EXCEPT !.pc = "sse",
                         !.sse = NewAggregation(resp.events, resp.tailed,
                                     StreamText(resp.events, resp.tailed))]
        ELSE OnJsonResponse(got, resp, hdrs, sid)

CaptureSession_KeepHeld(sid, header) ==
    IF HasValue(sid) THEN sid ELSE IF HasValue(header) THEN header ELSE sid

CaptureSession_Overwrite(sid, header) == header

\* Lines 182-188: the session id initialize captures from a response
CaptureSession(sid, header) == IF HasValue(header) THEN header ELSE sid

---------------------------------------------------------------------------
(* The operations of one MCPClient instance *)

Never == "never"

\* No route handler is running
NoRequest == [pc |-> "idle"]

\* Lines 7-12: new MCPClient(serverConfig, sessionId)
Init ==
    /\ headers \in Configs
    /\ sessionId \in {None, "X"}
    /\ requestId = 0
    /\ calls = [c \in Slots |-> NewCall]
    /\ initHeader = Never
    /\ router = NoRequest

Started(c, op, hdrs) ==
    [d \in Slots |->
        IF d = c
        THEN [NewCall EXCEPT !.pc = "fetch", !.op = op, !.fetches = 1,
                             !.id = GetNextRequestId(requestId),
                             !.hdrs = hdrs, !.held = sessionId,
                             !.seen = initHeader]
        ELSE Forget(calls[d])]

Send_LostUpdate(c, op) ==
    /\ calls' = Started(c, op, IF op = "initialize"
                               THEN InitializeHeaders(headers, sessionId)
                               ELSE RequestHeaders(headers, sessionId))
    /\ requestId' = IF \E d \in Slots : calls[d].pc \in {"fetch", "sse", "notify"}
                    THEN requestId
                    ELSE GetNextRequestId(requestId)
    /\ UNCHANGED <<headers, sessionId, initHeader>>

\* Lines 24-55 and 155-179: the synchronous start of a call, up to its
\* first await: the id is allocated, the request is built and sent
Send(c, op) ==
    /\ calls' = Started(c, op, IF op = "initialize"
                               THEN InitializeHeaders(headers, sessionId)
                               ELSE RequestHeaders(headers, sessionId))
    /\ requestId' = GetNextRequestId(requestId)
    /\ UNCHANGED <<headers, sessionId, initHeader>>

\* A call made by a caller that awaits each call before the next
Begin(c, op) ==
    /\ MayStart(c)
    /\ Send(c, op)

\* Lines 24-55 (listTools, callTool): the request is built and sent
SendRequest(c) ==
    /\ \E op \in Requests : Begin(c, op)
    /\ UNCHANGED router

\* Lines 155-179: the initialize request is built and sent
Initialize(c) ==
    /\ Begin(c, "initialize")
    /\ UNCHANGED router

FetchFails_Retry(c) ==
    /\ calls[c].pc = "fetch"
    /\ calls' = [calls EXCEPT
                    ![c] = IF @.fetches < 2
                           THEN [@ EXCEPT !.fetches = @ + 1]
                           ELSE Reject(@, MkError("fetch", <<"fetch failed">>))]
    /\ UNCHANGED <<headers, sessionId, requestId, initHeader, router>>

\* Lines 51 and 175: fetch rejects (connection refused, timeout)
FetchFails(c) ==
    /\ calls[c].pc = "fetch"
    /\ calls' = [calls EXCEPT ![c] = Reject(@, MkError("fetch", <<"fetch failed">>))]
    /\ UNCHANGED <<headers, sessionId, requestId, initHeader, router>>

ReceiveOf_CaptureOnSuccess(c, responses) ==
    /\ calls[c].pc = "fetch"
    /\ \E resp \in responses :
          LET isInit == calls[c].op = "initialize"
              sid == IF isInit THEN CaptureSession(sessionId, resp.session)
                               ELSE sessionId
              next == OnResponse(calls[c], resp, headers, sid)
          IN  /\ sessionId' = IF next.pc = "rejected" THEN sessionId ELSE sid
              /\ initHeader' = IF isInit THEN resp.session ELSE initHeader
              /\ calls' = [calls EXCEPT ![c] = next]
    /\ UNCHANGED <<headers, requestId, router>>

\* Lines 57-83 and 181-213: a response out of the set arrives
ReceiveOf(c, responses) ==
    /\ calls[c].pc = "fetch"
    /\ \E resp \in responses :
          LET isInit == calls[c].op = "initialize"
              sid == IF isInit THEN CaptureSession(sessionId, resp.session)
                               ELSE sessionId
          IN  /\ sessionId' = sid
              /\ initHeader' = IF isInit THEN resp.session ELSE initHeader
              /\ calls' = [calls EXCEPT ![c] = OnResponse(@, resp, headers, sid)]
    /\ UNCHANGED <<headers, requestId, router>>

\* Lines 102-141: read() delivers the next chunk of the stream
ReadChunk(c) ==
    /\ calls[c].pc = "sse"
    /\ LET a == calls[c].sse
       IN  \E n \in 1..Len(a.rest) :
              LET chunk == SubSeq(a.rest, 1, n)
                  left  == SubSeq(a.rest, n + 1, Len(a.rest))
                  after == OnChunk([a EXCEPT !.rest = left], chunk)
              IN  calls' = [calls EXCEPT
                               ![c] = OnAggregation(@, after, headers, sessionId)]
    /\ UNCHANGED <<headers, sessionId, requestId, initHeader, router>>

\* Lines 102-111: read() reports the end of the stream
ReadDone(c) ==
    /\ calls[c].pc = "sse"
    /\ calls[c].sse.rest = <<>>
    /\ calls' = [calls EXCEPT
                    ![c] = OnAggregation(@, OnDone(@.sse), headers, sessionId)]
    /\ UNCHANGED <<headers, sessionId, requestId, initHeader, router>>

\* Lines 142-144: read() rejects
ReadFails(c) ==
    /\ calls[c].pc = "sse"
    /\ LET failed == [calls[c].sse EXCEPT
                         !.settled = "rejected",
                         !.err = MkError("sse_read", <<"terminated">>)]
       IN  calls' = [calls EXCEPT
                        ![c] = OnAggregation(@, failed, headers, sessionId)]
    /\ UNCHANGED <<headers, sessionId, requestId, initHeader, router>>

\* Lines 218-224: initialize returns { result, sessionId: this.sessionId }
Returned(call) ==
    [call EXCEPT !.pc = "resolved", !.out.sessionId = sessionId]

\* statuses of the response to a notification
NotificationStatuses == {202, 500}

\* Lines 238-245: the notification's fetch resolves; the response is not
\* looked at
NotificationSent(c) ==
    /\ calls[c].pc = "notify"
    /\ \E status \in NotificationStatuses :
          calls' = [calls EXCEPT
                       ![c] = Returned([@ EXCEPT !.notif.end =
                                 IF IsOk(status) THEN "ok" ELSE "refused"])]
    /\ UNCHANGED <<headers, sessionId, requestId, initHeader, router>>

NotificationFails_Surfaced(c) ==
    /\ calls[c].pc = "notify"
    /\ calls' = [calls EXCEPT
                    ![c] = Reject([@ EXCEPT !.notif.end = "failed"],
                                  MkError("fetch", <<"fetch failed">>))]
    /\ UNCHANGED <<headers, sessionId, requestId, initHeader, router>>

\* Lines 246-249: the notification's fetch rejects and the error is dropped
NotificationFails(c) ==
    /\ calls[c].pc = "notify"
    /\ calls' = [calls EXCEPT
                    ![c] = Returned([@ EXCEPT !.notif.end = "failed"])]
    /\ UNCHANGED <<headers, sessionId, requestId, initHeader, router>>

Receive(c) == ReceiveOf(c, JsonResponses \cup SSEResponses)

Next ==
    \E c \in Slots :
        \/ SendRequest(c)
        \/ Initialize(c)
        \/ FetchFails(c)
        \/ Receive(c)
        \/ ReadChunk(c)
        \/ ReadDone(c)
        \/ ReadFails(c)
        \/ NotificationSent(c)
        \/ NotificationFails(c)

Spec == Init /\ [][Next]_vars

---------------------------------------------------------------------------
(* The aggregation of one SSE stream, over every stream of up to MaxEvents
   events and every way of cutting it into chunks *)

Streaming(op, events, tailed) ==
    LET sent == [NewCall EXCEPT !.pc = "fetch", !.op = op, !.id = 1,
                                !.fetches = 1,
                                !.hdrs = RequestHeaders(<<>>, None),
                                !.seen = Never]
        resp == [status |-> 200, ctype |-> "text/event-stream",
                 session |-> None, body |-> <<>>,
                 events |-> events, tailed |-> tailed]
    IN  OnResponse(sent, resp, <<>>, None)

InitSSE ==
    /\ headers = <<>>
    /\ sessionId = None
    /\ requestId = 1
    /\ initHeader = Never
    /\ router = NoRequest
    /\ \E op \in {"tools/call", "initialize"} :
       \E events \in SeqsUpTo(EventKinds, MaxEvents) :
       \E tailed \in BOOLEAN :
          /\ tailed => events # <<>>
          /\ calls = [c \in Slots |->
                        IF c = 1 THEN Streaming(op, events, tailed)
                                 ELSE NewCall]

NextSSE ==
    \/ ReadChunk(1)
    \/ ReadDone(1)
    \/ ReadFails(1)
    \/ NotificationSent(1)
    \/ NotificationFails(1)

SpecSSE == InitSSE /\ [][NextSSE]_vars

---------------------------------------------------------------------------
(* Properties of the SSE aggregation, checked under SpecSSE *)

\* What the server put on the stream, read off the events themselves
IsResultEvent(e) == e.k \in {"result", "crlf"}
IsErrorEvent(e) == e.k \in {"error", "both"}
ErrorText(e) == IF e.k = "both" \/ e.v = "boom" THEN <<"boom">> ELSE <<"SSE error">>

\* The events that reach the client as complete, line-feed-terminated lines
Complete(a) ==
    IF a.tailed THEN SubSeq(a.events, 1, Len(a.events) - 1) ELSE a.events

ResultEvents(evs) == {i \in 1..Len(evs) : IsResultEvent(evs[i])}
ErrorEvents(evs) == {i \in 1..Len(evs) : IsErrorEvent(evs[i])}
Last(S) == CHOOSE i \in S : \A j \in S : j <= i
First(S) == CHOOSE i \in S : \A j \in S : i <= j

\* The stream was read to its end or to a decisive event: the promise is
\* settled, and not because read() failed
Aggregated(a) == a.settled \in {"resolved", "rejected"} /\ a.err.site # "sse_read"

\* C1: a stream of complete lines that ends in a JSON-RPC result event and
\* holds no error event aggregates to the result of that last event,
\* however the stream is cut into chunks.
C1_LastResultReturned ==
    LET a == calls[1].sse
    IN  (/\ Aggregated(a)
         /\ ~a.tailed
         /\ a.events # <<>>
         /\ IsResultEvent(a.events[Len(a.events)])
         /\ ErrorEvents(a.events) = {})
        => /\ a.settled = "resolved"
           /\ a.value = a.events[Len(a.events)].v

\* C2: when a result event is followed by an error event, the aggregation
\* and the call fail with the message of the error event (the fallback
\* text when the server supplied none), and the earlier result is never
\* returned.
C2_ErrorAfterResult ==
    LET a == calls[1].sse
        evs == Complete(a)
    IN  (\E i \in ResultEvents(evs) : \E j \in ErrorEvents(evs) : i < j)
        => /\ calls[1].pc # "resolved"
           /\ a.settled # "resolved"
           /\ Aggregated(a) =>
                 /\ a.err = MkError("sse_error", ErrorText(evs[First(ErrorEvents(evs))]))
                 /\ calls[1].pc = "rejected"
                 /\ calls[1].out.err = Thrown(calls[1].op, a.err)
                 /\ calls[1].out.value = None

C2_Witness ==
    LET a == calls[1].sse
    IN  /\ a.events = <<Ev("result", "objA"), Ev("error", "boom")>>
        /\ ~a.tailed
        /\ calls[1].pc = "rejected"
        /\ calls[1].out.err.msg = <<"MCP request failed:", "boom">>

\* C3: a stream without any JSON-RPC result or error event fails with
\* "No data received from SSE stream" once it ends, and never returns a
\* value.
C3_NoEventNoData ==
    LET a == calls[1].sse
        evs == Complete(a)
    IN  (ResultEvents(evs) = {} /\ ErrorEvents(evs) = {})
        => /\ calls[1].pc \notin {"resolved", "notify"}
           /\ a.settled # "resolved"
           /\ Aggregated(a) =>
                 /\ a.err = MkError("sse_nodata", <<"No data received from SSE stream">>)
                 /\ calls[1].pc = "rejected"
                 /\ calls[1].out.value = None

C3_Witness ==
    LET a == calls[1].sse
    IN  /\ a.events = <<Ev("comment", None), Ev("plain", "objA")>>
        /\ a.err.site = "sse_nodata"
        /\ calls[1].pc = "rejected"

\* C4: once a JSON-RPC result event was retained and the stream ends
\* without an error event, the retained value is returned whatever it is,
\* null, false, 0 and the empty string included.
C4_RetainedReturned ==
    LET a == calls[1].sse
        evs == Complete(a)
    IN  (/\ Aggregated(a)
         /\ ResultEvents(evs) # {}
         /\ ErrorEvents(a.events) = {})
        => /\ a.settled = "resolved"
           /\ a.value = evs[Last(ResultEvents(evs))].v

---------------------------------------------------------------------------
(* Properties of the client, checked under Spec *)

\* The calls whose request and outcome are still in view
InView(c) == calls[c].pc \notin {"new", "done"}
Begun(c) == calls[c].pc # "new"
SessionHeader(hdrs) == Get(hdrs, "Mcp-Session-Id")
IsSession(s) == s \in {"S1", "S2"}

\* C5: the request ids of the calls made on one instance are 1, 2, 3, ...
\* in call order, whether the calls succeed or fail, and the
\* notification of initialize takes no id.
C5_RequestIdsIncrease ==
    /\ \A c \in Slots : Begun(c) => calls[c].id = c
    /\ \A c, d \in Slots : (Begun(c) /\ Begun(d) /\ c < d) => calls[c].id < calls[d].id
    /\ requestId = Cardinality({c \in Slots : Begun(c)})

C5_Witness ==
    /\ calls[1].pc = "done"
    /\ calls[2].pc = "rejected"
    /\ calls[2].id = 2
    /\ calls[3].pc = "new"

\* C6: after initialize received a response with header mcp-session-id: S,
\* the session id is S, initialize returns S as sessionId, and every later
\* tools/list and tools/call request carries Mcp-Session-Id: S.
C6_SessionCaptured ==
    /\ IsSession(initHeader) => sessionId = initHeader
    /\ \A c \in Slots :
          /\ (/\ calls[c].op = "initialize"
              /\ calls[c].pc = "resolved"
              /\ IsSession(calls[c].resp.session))
             => calls[c].out.sessionId = calls[c].resp.session
          /\ (/\ InView(c)
              /\ calls[c].op \in Requests
              /\ IsSession(calls[c].seen))
             => SessionHeader(calls[c].hdrs) = calls[c].seen

C6_Witness ==
    /\ SessionHeader(headers) = "CFG"
    /\ calls[1].pc = "done"
    /\ calls[2].pc = "done"
    /\ initHeader = "S2"
    /\ calls[3].op = "tools/call"
    /\ SessionHeader(calls[3].hdrs) = "S2"

\* C7: after initialize received a response without an mcp-session-id
\* header, the session id is unset and every later request has no
\* Mcp-Session-Id header.
C7_NoHeaderNoSession ==
    /\ initHeader = None => sessionId = None
    /\ \A c \in Slots :
          (InView(c) /\ calls[c].seen = None)
          => ~HasKey(calls[c].hdrs, "Mcp-Session-Id")

\* C8: every outgoing request made while the client holds a session id,
\* the initialize request and the notification included, carries
\* Mcp-Session-Id with that session id.
C8_SessionOnEveryRequest ==
    \A c \in Slots :
        /\ (InView(c) /\ HasValue(calls[c].held))
           => SessionHeader(calls[c].hdrs) = calls[c].held
        /\ (calls[c].notif.sent /\ HasValue(calls[c].notif.held))
           => SessionHeader(calls[c].notif.hdrs) = calls[c].notif.held

\* C9: in every outgoing request, each configured header is sent with its
\* configured value.
C9_ConfiguredWins ==
    \A c \in Slots : \A i \in 1..Len(headers) :
        /\ InView(c) => Get(calls[c].hdrs, headers[i][1]) = headers[i][2]
        /\ calls[c].notif.sent => Get(calls[c].notif.hdrs, headers[i][1]) = headers[i][2]

\* C9, amended: each configured header is sent with its configured value,
\* except that a tools/list or tools/call request made while a session id
\* is held carries that session id as Mcp-Session-Id.
C9_ConfiguredWinsButSession ==
    \A c \in Slots : \A i \in 1..Len(headers) :
        /\ InView(c) =>
              Get(calls[c].hdrs, headers[i][1]) =
                 IF /\ headers[i][1] = "Mcp-Session-Id"
                    /\ calls[c].op \in Requests
                    /\ HasValue(calls[c].held)
                 THEN calls[c].held
                 ELSE headers[i][2]
        /\ calls[c].notif.sent => Get(calls[c].notif.hdrs, headers[i][1]) = headers[i][2]

C9_Witness ==
    \E c \in Slots :
        /\ calls[c].op = "tools/list"
        /\ calls[c].pc = "fetch"
        /\ calls[c].held = "S1"
        /\ Get(headers, "Content-Type") = "text/plain"
        /\ Get(calls[c].hdrs, "Content-Type") = "text/plain"
        /\ SessionHeader(headers) = "CFG"
        /\ SessionHeader(calls[c].hdrs) = "S1"

\* C10: a response with a non-2xx status that is not an event stream makes
\* initialize, tools/list and tools/call fail with an error that carries
\* the status code, and no result is returned.
C10_StatusError ==
    \A c \in Slots :
        (/\ InView(c)
         /\ calls[c].resp.status # 0
         /\ ~IsOk(calls[c].resp.status)
         /\ ~IsEventStream(calls[c].resp.ctype))
        => /\ calls[c].pc = "rejected"
           /\ calls[c].out.err.site = "http_status"
           /\ Includes(calls[c].out.err.msg, StatusCode(calls[c].resp.status))
           /\ calls[c].out.value = None
           /\ ~calls[c].notif.sent

C10_Witness ==
    \E c \in Slots :
        /\ calls[c].op = "initialize"
        /\ calls[c].resp.status = 401
        /\ calls[c].resp.ctype = "application/json"
        /\ calls[c].out.err.msg = <<"HTTP", "401", "Unauthorized">>

---------------------------------------------------------------------------
(* Properties of the notification that follows initialize, checked under
   Spec *)

\* C11: a failure of the notifications/initialized send, a rejected fetch
\* or a response of any status, is never surfaced: once the initialize
\* response has been parsed, initialize returns the parsed result and the
\* session id whether the send succeeds or fails.
C11_NotificationFailureSwallowed ==
    [][\A c \in Slots :
          (calls[c].pc = "notify" /\ calls'[c] # calls[c])
          => /\ calls'[c].pc = "resolved"
             /\ calls'[c].notif.end \in {"ok", "refused", "failed"}
             /\ calls'[c].out = [value |-> calls[c].out.value,
                                 sessionId |-> sessionId,
                                 err |-> NoError]]_vars

C11_Witness ==
    \E c \in Slots :
        /\ calls[c].op = "initialize"
        /\ calls[c].notif.end = "failed"
        /\ calls[c].pc = "resolved"
        /\ calls[c].out = [value |-> "objA", sessionId |-> "S1", err |-> NoError]

---------------------------------------------------------------------------
(* One initialize call to its end.  The call is made and the exchange of
   the initialize request goes on whenever it can: fetch settles or times
   out and a stream that is read is delivered or fails (lines 175-213).  Nothing makes the server
   answer the notification, so its fetch is left without fairness. *)

InitializeExchange(c) ==
    \/ Initialize(c)
    \/ FetchFails(c)
    \/ Receive(c)
    \/ ReadChunk(c)
    \/ ReadDone(c)
    \/ ReadFails(c)

NextLive ==
    \/ Initialize(1)
    \/ FetchFails(1)
    \/ Receive(1)
    \/ ReadChunk(1)
    \/ ReadDone(1)
    \/ ReadFails(1)
    \/ NotificationSent(1)
    \/ NotificationFails(1)

SpecLive ==
    /\ Init
    /\ [][NextLive]_vars
    /\ WF_vars(InitializeExchange(1))

\* C12: the notification never blocks the caller: once the initialize
\* response has been parsed, initialize eventually returns, also when the
\* notification's request never completes.
C12_InitializeReturns ==
    (calls[1].pc = "notify") ~> (calls[1].pc = "resolved")

---------------------------------------------------------------------------
(* Properties of the requests one call issues, checked under Spec *)

\* The response of an initialize call has been parsed into a result
Parsed(call) ==
    /\ call.resp.status # 0
    /\ call.out.err = NoError
    /\ call.out.value # None
    /\ IF IsEventStream(call.resp.ctype)
       THEN call.sse.settled = "resolved" /\ call.sse.rest = <<>>
       ELSE IsOk(call.resp.status)

\* C13: an initialize call sends the notification exactly once if and
\* only if the initialize result was parsed, after the response has been
\* fully parsed and before initialize returns; on a failure path none is
\* sent.
C13_NotifiedIffParsed ==
    \A c \in Slots :
        LET call == calls[c]
        IN  /\ (InView(c) /\ call.op = "initialize") =>
                  /\ call.notif.sent <=> Parsed(call)
                  /\ call.notif.sent <=> call.pc \in {"notify", "resolved"}
                  /\ call.fetches = IF call.notif.sent THEN 2 ELSE 1
                  /\ call.pc = "notify" => call.notif.end = None
                  /\ call.pc = "resolved" => call.notif.end # None
                  /\ call.pc = "rejected" => ~call.notif.sent
            /\ call.op # "initialize" => ~call.notif.sent

C13_Witness ==
    \E c \in Slots :
        /\ calls[c].op = "initialize"
        /\ calls[c].pc = "resolved"
        /\ IsEventStream(calls[c].resp.ctype)
        /\ calls[c].sse.settled = "resolved"
        /\ calls[c].notif.sent
        /\ calls[c].fetches = 2

\* C14: no operation retries: a tools/list or tools/call call issues
\* exactly one HTTP request, an initialize call one initialize request and
\* at most one notification, and after a failure the call sends nothing
\* more.
C14_NoRetry ==
    /\ [](\A c \in Slots :
             InView(c) =>
                /\ calls[c].op \in Requests => calls[c].fetches = 1
                /\ calls[c].op = "initialize" =>
                      calls[c].fetches = IF calls[c].notif.sent THEN 2 ELSE 1
                /\ calls[c].pc = "rejected" =>
                      calls[c].fetches = 1 /\ ~calls[c].notif.sent)
    /\ [][\A c \in Slots :
             calls[c].pc = "rejected" =>
                \/ calls'[c] = calls[c]
                \/ calls'[c] = Forget(calls[c])]_vars

C14_Witness ==
    \E c, d \in Slots :
        /\ c < d
        /\ calls[c].pc = "done"
        /\ calls[d].op = "tools/call"
        /\ calls[d].pc = "rejected"
        /\ calls[d].out.err.site = "fetch"
        /\ calls[d].fetches = 1

---------------------------------------------------------------------------
(* The route handlers of the router (src/unnamed/part_000): POST
   /api/mcp/:serverName/initialize, GET /api/mcp/:serverName/tools and
   POST /api/mcp/:serverName/tools/:toolName/execute.  A handler builds a
   client for its one inbound request, awaits initialize and then the
   call the route is for, and answers with a status.  The state starts
   when the request has arrived: headers and sessionId are what the client
   is constructed with. *)

Routes == {"initialize", "tools", "execute"}

\* the call a route is for
RouteOp(route) == IF route = "tools" THEN "tools/list" ELSE "tools/call"

\* "main" is configured with type http, "local" with another type,
\* "ghost" is not configured
ServerNames == {"main", "local", "ghost"}

\* config.js lines 35-50: the error getServerConfig throws, if any
GetServerConfig(name) ==
    CASE name = "ghost" ->
            MkError("config_unknown",
                    <<"Server", name, "not found", "in configuration">>)
      [] name = "local" ->
            MkError("config_invalid",
                    <<"Server", name, "is not an HTTP server">>)
      [] OTHER -> NoError

\* serverConfig.headers of a configured server
ConfiguredHeaders(name) ==
    IF name = "main" THEN <<<<"Authorization", "tok">>>> ELSE <<>>

\* Lines 28-30: req.query.sessionId || req.get('Mcp-Session-Id') || null
GetSessionId(query, header) ==
    IF HasValue(query) THEN query
    ELSE IF HasValue(header) THEN header
    ELSE None

\* the session ids a caller sends
QueryValues == {None, "Q"}
HeaderValues == {None, "H"}

\* responses of the upstream server to the calls of a handler
RouterBodies ==
    {Obj(<<Rpc, <<"R", "objA">>>>), Obj(<<Rpc, <<"E", "boom">>>>),
     Obj(<<Rpc, <<"E", "missing">>>>), Obj(<<Rpc, <<"E", "locked">>>>),
     Obj(<<Rpc, <<"E", "toolfail">>>>)}

RouterEvents ==
    {<<>>, <<Ev("result", "objA")>>, <<Ev("error", "missing")>>}

RouterResponses ==
    [status : Statuses, ctype : {"application/json"},
     session : {None, "S1"}, body : RouterBodies,
     events : {<<>>}, tailed : {FALSE}]
    \cup
    [status : {200}, ctype : {"text/event-stream"},
     session : {None, "S1"}, body : {<<>>},
     events : RouterEvents, tailed : {FALSE}]

NoBody == [raw |-> None, sessionId |-> None]

\* An inbound request as its handler starts
Inbound(route, server, init, query, header) ==
    [pc |-> "received", route |-> route, server |-> server, init |-> init,
     query |-> query, header |-> header,
     newSessionId |-> None, status |-> 0, error |-> None, body |-> NoBody,
     sessionHeader |-> None, cause |-> NoError, causeStatus |-> 0,
     initialized |-> FALSE, dropped |-> FALSE]

\* Lines 60-64, 109-116 and 166-174: the session id the client of a route
\* is constructed with
ClientSession(route, query, header) ==
    IF route = "initialize" THEN None ELSE GetSessionId(query, header)

InitRouter ==
    /\ \E route \in Routes, server \in ServerNames, init \in BOOLEAN,
          query \in QueryValues, header \in HeaderValues :
          /\ router = Inbound(route, server, init, query, header)
          /\ headers = ConfiguredHeaders(server)
          /\ sessionId = ClientSession(route, query, header)
    /\ requestId = 0
    /\ calls = [c \in Slots |-> NewCall]
    /\ initHeader = Never

\* Lines 77-98, 135-156 and 193-221: the catch of a handler maps the
\* message of the error to a status
StatusOf(route, msg) ==
    IF route = "execute"
    THEN IF Includes(msg, "not found") /\ Includes(msg, "Server")
         THEN [status |-> 404, error |-> "Server not found"]
         ELSE IF Includes(msg, "Tool") \/ Includes(msg, "not found")
         THEN [status |-> 404, error |-> "Tool not found"]
         ELSE IF Includes(msg, "401") \/ Includes(msg, "403")
         THEN [status |-> 401, error |-> "Authentication failed"]
         ELSE [status |-> 500, error |-> "Failed"]
    ELSE IF Includes(msg, "not found")
         THEN [status |-> 404, error |-> "Server not found"]
         ELSE IF Includes(msg, "401") \/ Includes(msg, "403")
         THEN [status |-> 401, error |-> "Authentication failed"]
         ELSE [status |-> 500, error |-> "Failed"]

\* The catch of a handler answers; causeStatus is the status of the
\* upstream response the failed call had received, 0 if none
Caught(r, err, upstream) ==
    [r EXCEPT !.pc = "responded",
              !.status = StatusOf(r.route, err.msg).status,
              !.error = StatusOf(r.route, err.msg).error,
              !.cause = err, !.causeStatus = upstream]

\* Lines 67-76, 129-134 and 187-192: res.set and res.json
Answered(r, value, sid, member) ==
    [r EXCEPT !.pc = "responded", !.status = 200,
              !.body = [raw |-> value, sessionId |-> member],
              !.sessionHeader = IF HasValue(sid) THEN sid ELSE None]

\* The slot of the call a handler is awaiting
Awaited == IF calls[2].pc = "new" THEN 1 ELSE 2

\* Lines 63-65, 115-124 and 173-182: the handler builds the client and
\* makes its first call, or getServerConfig throws
Handle ==
    /\ router.pc = "received"
    /\ LET thrown == GetServerConfig(router.server)
       IN  \/ /\ thrown # NoError
              /\ router' = Caught(router, thrown, 0)
              /\ UNCHANGED <<headers, sessionId, requestId, calls, initHeader>>
           \/ /\ thrown = NoError
              /\ router.route = "initialize" \/ router.init
              /\ Begin(1, "initialize")
              /\ router' = [router EXCEPT !.pc = "initializing",
                                          !.newSessionId = sessionId]
           \/ /\ thrown = NoError
              /\ ~(router.route = "initialize" \/ router.init)
              /\ Begin(1, RouteOp(router.route))
              /\ router' = [router EXCEPT !.pc = "calling",
                                          !.newSessionId = sessionId]

AfterInitialize_NotAwaited ==
    /\ router.pc = "initializing"
    /\ router.route # "initialize"
    /\ calls[1].pc = "fetch"
    /\ calls' = [calls EXCEPT
                    ![2] = [NewCall EXCEPT
                               !.pc = "fetch", !.op = RouteOp(router.route),
                               !.fetches = 1,
                               !.id = GetNextRequestId(requestId),
                               !.hdrs = RequestHeaders(headers, sessionId),
                               !.held = sessionId, !.seen = initHeader]]
    /\ requestId' = GetNextRequestId(requestId)
    /\ router' = [router EXCEPT !.pc = "calling"]
    /\ UNCHANGED <<headers, sessionId, initHeader>>

\* Lines 65-76, 121-127 and 179-185: what follows await client.initialize()
AfterInitialize ==
    /\ router.pc = "initializing"
    /\ \/ /\ calls[1].pc = "rejected"
          /\ router' = Caught(router, calls[1].out.err, calls[1].resp.status)
          /\ UNCHANGED <<headers, sessionId, requestId, calls, initHeader>>
       \/ /\ calls[1].pc = "resolved"
          /\ router.route = "initialize"
          /\ router' = Answered([router EXCEPT !.initialized = TRUE],
                                calls[1].out.value, calls[1].out.sessionId,
                                IF HasValue(calls[1].out.sessionId)
                                THEN calls[1].out.sessionId ELSE "null")
          /\ UNCHANGED <<headers, sessionId, requestId, calls, initHeader>>
       \/ /\ calls[1].pc = "resolved"
          /\ router.route # "initialize"
          /\ Begin(2, RouteOp(router.route))
          /\ router' = [router EXCEPT !.pc = "calling", !.initialized = TRUE,
                                      !.newSessionId = calls[1].out.sessionId]

\* Lines 127-134 and 185-192: what follows await client.listTools() or
\* await client.callTool()
AfterCall ==
    /\ router.pc = "calling"
    /\ \/ /\ calls[Awaited].pc = "rejected"
          /\ router' = Caught(router, calls[Awaited].out.err,
                              calls[Awaited].resp.status)
       \/ /\ calls[Awaited].pc = "resolved"
          /\ router' = Answered(router, calls[Awaited].out.value,
                                router.newSessionId, None)
    /\ UNCHANGED <<headers, sessionId, requestId, calls, initHeader>>

\* The caller closes the inbound connection; no handler listens for it
Drop ==
    /\ router.pc \in {"initializing", "calling"}
    /\ ~router.dropped
    /\ router' = [router EXCEPT !.dropped = TRUE]
    /\ UNCHANGED <<headers, sessionId, requestId, calls, initHeader>>

RouterReceive(c) == ReceiveOf(c, RouterResponses)

NextRouter ==
    \/ Handle
    \/ AfterInitialize
    \/ AfterCall
    \/ Drop
    \/ \E c \in 1..2 :
          \/ FetchFails(c)
          \/ RouterReceive(c)
          \/ ReadChunk(c)
          \/ ReadDone(c)
          \/ ReadFails(c)
          \/ NotificationSent(c)
          \/ NotificationFails(c)

SpecRouter == InitRouter /\ [][NextRouter]_vars

---------------------------------------------------------------------------
(* Properties of the route handlers, checked under SpecRouter *)

\* C15: when an inbound request carries a session id both in the
\* Mcp-Session-Id header and in the sessionId query parameter, with
\* different values, the client is constructed with the header's value.
C15_HeaderPrecedence ==
    (/\ router.route \in {"tools", "execute"}
     /\ router.pc \in {"initializing", "calling"}
     /\ ~router.initialized
     /\ HasValue(router.header)
     /\ HasValue(router.query)
     /\ router.header # router.query)
    => calls[1].held = router.header

\* The status the kind of an error stands for: an unknown server name,
\* an upstream 401 or 403, anything else
StatusOfKind(err, upstream) ==
    CASE err = NoError -> 200
      [] err.site = "config_unknown" -> 404
      [] err.site = "http_status" /\ upstream \in {401, 403} -> 401
      [] OTHER -> 500

\* C16: for every route the status is determined by the kind of the
\* error alone: an unknown server name gives 404, an upstream 401 or 403
\* gives 401, every other failure gives 500 whatever text its message
\* holds, and success gives 200 with the raw result as body.
C16_StatusByKind ==
    router.pc = "responded" =>
        /\ router.status = StatusOfKind(router.cause, router.causeStatus)
        /\ router.cause = NoError =>
              router.body = [raw |-> calls[Awaited].out.value, sessionId |-> None]

\* C17: once the inbound connection is dropped, the read loop of a stream
\* that is being read takes no further chunk and reports no result.
C17_ReadsStopOnDrop ==
    [][\A c \in 1..2 :
          (router.dropped /\ calls[c].pc = "sse")
          => /\ calls'[c].sse.rest = calls[c].sse.rest
             /\ calls'[c].sse.settled # "resolved"]_vars

Outstanding(c) == calls[c].pc \in {"fetch", "sse", "notify"}

\* C19: within one inbound request the client never has two upstream
\* requests outstanding; with init=true the tools request is sent only
\* after the initialize response has been read to its end and the
\* notification has been sent and has settled, and never when initialize
\* failed.
C19_OneRequestAtATime ==
    /\ [](/\ Cardinality({c \in Slots : Outstanding(c)}) <= 1
          /\ calls[2].pc # "new" =>
                router.init /\ router.initialized /\ calls[1].pc = "done"
          /\ (calls[1].op = "initialize" /\ calls[1].pc = "rejected") =>
                calls[2].pc = "new" /\ requestId = 1
          /\ (router.pc = "responded" /\ router.status # 200) =>
                ~\E c \in Slots : Outstanding(c))
    /\ [][(calls[2].pc = "new" /\ calls'[2].pc # "new")
          => /\ calls[1].op = "initialize"
             /\ calls[1].pc = "resolved"
             /\ calls[1].notif.sent /\ calls[1].notif.end # None
             /\ calls[1].resp.status # 0
             /\ IsEventStream(calls[1].resp.ctype) =>
                   calls[1].sse.settled = "resolved" /\ calls[1].sse.rest = <<>>
             /\ calls'[2].op = RouteOp(router.route)
             /\ calls'[2].pc = "fetch"]_vars

C19_Witness ==
    /\ router.pc = "responded"
    /\ router.route = "tools"
    /\ router.init
    /\ router.status = 200
    /\ calls[1].pc = "done"
    /\ calls[2].op = "tools/list"
    /\ calls[2].pc = "resolved"
    /\ IsEventStream(calls[2].resp.ctype)

---------------------------------------------------------------------------
(* The end of the aggregation on an error event, checked under SpecSSE *)

\* C18: on a JSON-RPC error event the aggregation ends at once: no later
\* line of the chunk is examined, no further chunk is read, and the
\* outcome is not changed by later events.
C18_ErrorEndsAggregation ==
    /\ [](LET a == calls[1].sse
              evs == Complete(a)
          IN  a.err.site = "sse_error" =>
                 /\ ErrorEvents(evs) # {}
                 /\ LET k == First(ErrorEvents(evs))
                        before == {i \in ResultEvents(evs) : i < k}
                    IN  /\ a.err.msg = ErrorText(evs[k])
                        /\ a.result = IF before = {} THEN "null"
                                      ELSE evs[Last(before)].v
                 /\ a.settled = "rejected"
                 /\ calls[1].pc = "rejected"
                 /\ calls[1].out.err = Thrown(calls[1].op, a.err)
                 /\ calls[1].out.value = None)
    /\ [][calls[1].sse.err.site = "sse_error" => calls'[1] = calls[1]]_vars

C18_Witness ==
    LET a == calls[1].sse
    IN  /\ a.events = <<Ev("error", "boom"), Ev("result", "objA")>>
        /\ ~a.tailed
        /\ a.rest = <<>>
        /\ a.buffer = <<>>
        /\ a.result = "null"
        /\ a.err = MkError("sse_error", <<"boom">>)
        /\ calls[1].pc = "rejected"

---------------------------------------------------------------------------
(* The dispatch on the content type, checked under Spec *)

\* What aggregation makes of a stream of complete events that was read to
\* its end or to its first error event, told from the events alone
OutcomeOf(evs) ==
    IF ErrorEvents(evs) # {}
    THEN [settled |-> "rejected", value |-> None,
          err |-> MkError("sse_error", ErrorText(evs[First(ErrorEvents(evs))]))]
    ELSE IF ResultEvents(evs) # {} /\ Truthy(evs[Last(ResultEvents(evs))].v)
    THEN [settled |-> "resolved", value |-> evs[Last(ResultEvents(evs))].v,
          err |-> NoError]
    ELSE [settled |-> "rejected", value |-> None,
          err |-> MkError("sse_nodata", <<"No data received from SSE stream">>)]

\* C20: the handling of a response is chosen by the content type alone: for
\* an event stream the outcome of the call is the outcome of the
\* aggregation whatever the HTTP status, for any other response the status
\* is checked and the body parsed as JSON.
C20_DispatchOnContentType ==
    \A c \in Slots :
        LET call == calls[c]
            a == call.sse
        IN  (InView(c) /\ call.resp.status # 0) =>
               IF IsEventStream(call.resp.ctype)
               THEN /\ a.settled # "idle"
                    /\ a.settled = "pending" => call.pc = "sse"
                    /\ a.settled = "resolved" =>
                          /\ call.pc \in {"resolved", "notify"}
                          /\ call.out.value = a.value
                          /\ call.out.err = NoError
                    /\ a.settled = "rejected" =>
                          /\ call.pc = "rejected"
                          /\ call.out.err = Thrown(call.op, a.err)
                          /\ call.out.value = None
                    /\ Aggregated(a) =>
                          /\ a.settled = OutcomeOf(Complete(a)).settled
                          /\ a.value = OutcomeOf(Complete(a)).value
                          /\ a.err = OutcomeOf(Complete(a)).err
               ELSE /\ a = NoAggregation
                    /\ call.pc # "sse"
                    /\ ~IsOk(call.resp.status) =>
                          /\ call.pc = "rejected"
                          /\ call.out.err.site = "http_status"
                    /\ IsOk(call.resp.status) =>
                          call.out.err.site \in {None, "json_parse", "jsonrpc_error"}

C20_Witness ==
    \E c \in Slots :
        /\ calls[c].op = "tools/list"
        /\ calls[c].resp.status = 500
        /\ IsEventStream(calls[c].resp.ctype)
        /\ calls[c].sse.events = <<Ev("result", "objA")>>
        /\ calls[c].pc = "resolved"
        /\ calls[c].out.value = "objA"

---------------------------------------------------------------------------
(* Properties of the session id, checked under Spec *)

\* C21: initialize captures the session id from the response header before
\* it looks at the status or the body: once an initialize call has received
\* a response with header mcp-session-id: S, the session id is S, also
\* when the call fails on the status, on a JSON-RPC error or in the
\* aggregation.
C21_CapturedBeforeFailure ==
    \A c \in Slots :
        (/\ InView(c)
         /\ calls[c].op = "initialize"
         /\ calls[c].resp.status # 0
         /\ HasValue(calls[c].resp.session))
        => sessionId = calls[c].resp.session

C21_Witness ==
    \E c \in Slots :
        /\ calls[c].op = "initialize"
        /\ calls[c].pc = "rejected"
        /\ calls[c].out.err.site \in {"http_status", "jsonrpc_error", "sse_error",
                                      "sse_nodata"}
        /\ calls[c].held = "X"
        /\ calls[c].resp.session = "S1"
        /\ sessionId = "S1"

---------------------------------------------------------------------------
(* The text after the last line feed, checked under SpecSSE *)

\* C22: a data line is parsed only once its line feed has been read: the
\* text left in the buffer when the stream ends is dropped unparsed, so a
\* last result or error event without its line feed has no effect on the
\* outcome.
C22_TailDiscarded ==
    LET a == calls[1].sse
        whole == OutcomeOf(Complete(a))
    IN  /\ Aggregated(a) =>
              /\ a.settled = whole.settled
              /\ a.value = whole.value
              /\ a.err = whole.err
        /\ (a.tailed /\ Aggregated(a) /\ a.rest = <<>> /\ a.err.site # "sse_error")
           => a.buffer = EventText(a.events[Len(a.events)])

C22_Witness ==
    LET a == calls[1].sse
    IN  /\ a.events = <<Ev("result", "objA"), Ev("error", "boom")>>
        /\ a.tailed
        /\ a.rest = <<>>
        /\ a.buffer = EventText(Ev("error", "boom"))
        /\ a.settled = "resolved"
        /\ a.value = "objA"
        /\ calls[1].pc = "resolved"

\* C23: the session id changes only when an initialize call receives a
\* response with a non-empty mcp-session-id header, and then to that
\* header's value: tools/list, tools/call and the notification leave it as
\* it is, also when they fail, and a held session id is never unset.
C23_SessionFrame ==
    [][/\ sessionId' # sessionId =>
             \E c \in Slots :
                /\ calls[c].op = "initialize"
                /\ calls[c].pc = "fetch"
                /\ calls'[c].resp.status # 0
                /\ HasValue(calls'[c].resp.session)
                /\ sessionId' = calls'[c].resp.session
       /\ HasValue(sessionId) => HasValue(sessionId')]_vars

C23_Witness ==
    \E c \in Slots :
        /\ calls[c].op = "tools/call"
        /\ calls[c].pc = "rejected"
        /\ calls[c].resp.session = "S2"
        /\ calls[c].held = "S1"
        /\ sessionId = "S1"

---------------------------------------------------------------------------
(* Calls made on one instance without awaiting them: a call may start
   while earlier calls are in flight, and the network steps of the calls in
   flight interleave in every order.  Slots are in call-start order. *)

Operations == Requests \cup {"initialize"}

\* responses of the upstream server to concurrent calls
ConcurrentResponses ==
    [status : {200}, ctype : {"application/json"}, session : {None},
     body : {Obj(<<Rpc, <<"R", "objA">>>>)}, events : {<<>>}, tailed : {FALSE}]
    \cup
    [status : {500}, ctype : {"application/json"}, session : {None},
     body : {<<Ch("x")>>}, events : {<<>>}, tailed : {FALSE}]
    \cup
    [status : {200}, ctype : {"text/event-stream"}, session : {None},
     body : {<<>>}, events : {<<Ev("blank", None)>>}, tailed : {FALSE}]

InitConcurrent ==
    /\ Init
    /\ headers = <<>>
    /\ sessionId = None

\* The caller makes its next call, whatever the state of the earlier ones
StartConcurrently(c) ==
    /\ calls[c].pc = "new"
    /\ \A d \in 1..(c - 1) : calls[d].pc # "new"
    /\ \E op \in Operations : Send(c, op)
    /\ UNCHANGED router

ConcurrentReceive(c) == ReceiveOf(c, ConcurrentResponses)

NextConcurrent ==
    \E c \in Slots :
        \/ StartConcurrently(c)
        \/ FetchFails(c)
        \/ ConcurrentReceive(c)
        \/ ReadChunk(c)
        \/ ReadDone(c)
        \/ ReadFails(c)
        \/ NotificationSent(c)
        \/ NotificationFails(c)

SpecConcurrent == InitConcurrent /\ [][NextConcurrent]_vars

\* C24: when calls are started on one instance without being awaited, each
\* call is sent with an id of its own, and the ids are allocated in the
\* order the calls were started, under every interleaving of the network
\* steps.
C24_AtomicIds ==
    /\ [](/\ \A c \in Slots : calls[c].pc # "new" => calls[c].id = c
          /\ \A c, d \in Slots :
                (calls[c].pc # "new" /\ calls[d].pc # "new" /\ c # d)
                => calls[c].id # calls[d].id
          /\ requestId = Cardinality({c \in Slots : calls[c].pc # "new"}))
    /\ [][\A c \in Slots :
             /\ calls[c].pc # "new" => calls'[c].id = calls[c].id
             /\ (calls[c].pc = "new" /\ calls'[c].pc # "new")
                => /\ calls'[c].id = requestId + 1
                   /\ \A d \in Slots :
                         calls[d].pc # "new" => calls[d].id < calls'[c].id]_vars

C24_Witness ==
    /\ calls[1].pc = "fetch"
    /\ calls[2].op = "initialize"
    /\ calls[2].pc = "notify"
    /\ calls[3].pc = "sse"
    /\ calls[1].id = 1
    /\ calls[2].id = 2
    /\ calls[3].id = 3

=============================================================================
